---- MODULE Spec2Model ----
(***************************************************************************)
(* The two Kafka consumers of buzzline-03:                                 *)
(*   consumers/csv_consumer_prince.py   rolling window + stall detection   *)
(*   consumers/json_consumer_prince.py  per-symbol price series            *)
(* Each consumer is its own process; a behaviour of this module is a run   *)
(* of one of them (variable program), fed message bodies one at a time.    *)
(*                                                                         *)
(* Numbers are fixed-point: one unit stands for 0.1, so the default stall  *)
(* threshold 0.2 is 2.                                                     *)
(***************************************************************************)
EXTENDS Integers, Sequences, FiniteSets, TLC

VARIABLES
    program,                     \* which consumer script is running
    HEALTH_ROLLING_WINDOW_SIZE,  \* os.environ, read by get_rolling_window_size
    HEALTH_STALL_THRESHOLD_F,    \* os.environ, read by get_stall_threshold
    window_size,                 \* main's local (csv consumer)
    maxlen,                      \* rolling_window.maxlen
    rolling_window,              \* the deque of main (csv consumer)
    is_stalled,                  \* what detect_stall did for the last message
    stall_log,                   \* the "STALL DETECTED" lines written so far
    stock_prices,                \* the defaultdict(list) of the json consumer
    updated_log,                 \* the "Updated prices for" lines written so far
    message,                     \* the body handed to process_message last
    accepted,                    \* history: the values appended to rolling_window
    appended,                    \* history: the (symbol, price) pairs appended
    rolling_window_b,            \* a second csv consumer, run beside the first
    stall_log_b,                 \*   on a stream that differs in the extra fields
    message_b,
    pc,                          \* where main is: polling, in an except clause, closed
    stopped_by,                  \* what ended the for loop
    close_calls                  \* how often consumer.close() was called

vars == <<program, HEALTH_ROLLING_WINDOW_SIZE, HEALTH_STALL_THRESHOLD_F,
          window_size, maxlen, rolling_window, is_stalled, stall_log,
          stock_prices, updated_log, message, accepted, appended,
          rolling_window_b, stall_log_b, message_b, pc, stopped_by, close_calls>>

(***************************************************************************)
(* Bounds of the model.                                                    *)
(***************************************************************************)
MaxWindow == 3      \* window sizes 1..MaxWindow are configured
MaxReadings == 4    \* readings appended to the rolling window in one run
MaxPrices == 3      \* prices appended to the series in one run
MaxPairReadings == 2 \* readings appended when two consumers run side by side
MaxLoopReadings == 2 \* readings or prices appended in a run that is cancelled or fails

(***************************************************************************)
(* JSON values as json.loads returns them.  A string is numbered; None is  *)
(* what json null decodes to and what dict.get returns for a missing key.  *)
(***************************************************************************)
JNum(n) == [t |-> "number", v |-> n]
JStr(i) == [t |-> "string", v |-> i]
JArr == [t |-> "array", v |-> 0]
None == [t |-> "null", v |-> 0]

Thresholds == {1, 2}
Calories == {JNum(0), JNum(2), JNum(3), JStr(9)}
Timestamps == {JStr(1), JStr(2)}
Symbols == {JStr(1), JStr(2)}
Prices == {JNum(1), JNum(2), JStr(9)}

CsvFields == {"timestamp", "steps", "heart_rate", "calories_burned",
              "sleep_hours", "hydration_liters"}
ExtraFields == {"steps", "heart_rate", "sleep_hours", "hydration_liters"}
JsonFields == {"timestamp", "symbol", "price"}

\* A message body: text that is no JSON, a JSON array, the JSON null, or a JSON
\* object; Undecodable is a body of bytes that are no UTF-8.
Invalid == [syntax |-> "invalid", obj |-> <<>>]
Array == [syntax |-> "array", obj |-> <<>>]
Null == [syntax |-> "null", obj |-> <<>>]
Undecodable == [syntax |-> "undecodable", obj |-> <<>>]
Object(o) == [syntax |-> "object", obj |-> o]

HasValue(m, f) == m.syntax = "object" /\ f \in DOMAIN m.obj /\ m.obj[f] # None

Without(o, f) == [k \in (DOMAIN o) \ {f} |-> o[k]]
With(o, f, x) == [k \in (DOMAIN o) \cup {f} |-> IF k = f THEN x ELSE o[k]]

HealthRecord(ts, cal, extra) ==
    [k \in CsvFields |-> IF k = "timestamp" THEN ts
                         ELSE IF k = "calories_burned" THEN cal
                         ELSE extra]

CsvComplete ==
    {HealthRecord(ts, cal, JNum(e)) : ts \in Timestamps, cal \in Calories, e \in {0, 1}}
CsvBase == HealthRecord(JStr(1), JNum(2), JNum(1))
CsvDefective ==
    {Without(CsvBase, f) : f \in CsvFields} \cup {With(CsvBase, f, None) : f \in CsvFields}
CsvMessages == {Invalid, Array, Null} \cup {Object(o) : o \in CsvComplete \cup CsvDefective}

PriceRecord(ts, sym, price) ==
    [k \in JsonFields |-> IF k = "timestamp" THEN ts
                          ELSE IF k = "symbol" THEN sym ELSE price]
JsonComplete == {PriceRecord(JStr(1), s, p) : s \in Symbols, p \in Prices}
JsonBase == PriceRecord(JStr(1), JStr(1), JNum(1))
JsonDefective ==
    {Without(JsonBase, f) : f \in JsonFields}
        \cup {With(JsonBase, f, None) : f \in JsonFields}
        \cup {With(JsonBase, "symbol", JArr)}
JsonMessages == {Invalid, Array, Null} \cup {Object(o) : o \in JsonComplete \cup JsonDefective}

(***************************************************************************)
(* Python built-ins the handlers use.                                      *)
(***************************************************************************)
dict_get(data, key) == IF key \in DOMAIN data THEN data[key] ELSE None
dict_get_default(data, key, default) == IF key \in DOMAIN data THEN data[key] ELSE default

\* json.loads(message): JSONDecodeError for text that is no JSON, UnicodeDecodeError
\* for bytes that are no UTF-8, else the value.
json_loads_lenient(m) ==
    IF m.syntax = "invalid" THEN [raised |-> "", isdict |-> TRUE, value |-> <<>>]
    ELSE IF m.syntax = "undecodable"
         THEN [raised |-> "UnicodeDecodeError", isdict |-> FALSE, value |-> <<>>]
    ELSE [raised |-> "", isdict |-> m.syntax = "object", value |-> m.obj]

json_loads_any_is_dict(m) ==
    IF m.syntax = "invalid" THEN [raised |-> "JSONDecodeError", isdict |-> FALSE, value |-> <<>>]
    ELSE IF m.syntax = "undecodable"
         THEN [raised |-> "UnicodeDecodeError", isdict |-> FALSE, value |-> <<>>]
    ELSE [raised |-> "", isdict |-> TRUE, value |-> m.obj]

json_loads(m) ==
    IF m.syntax = "invalid" THEN [raised |-> "JSONDecodeError", isdict |-> FALSE, value |-> <<>>]
    ELSE IF m.syntax = "undecodable"
         THEN [raised |-> "UnicodeDecodeError", isdict |-> FALSE, value |-> <<>>]
    ELSE [raised |-> "", isdict |-> m.syntax = "object", value |-> m.obj]

RECURSIVE SeqMax(_)
SeqMax(s) == IF Len(s) = 1 THEN s[1]
             ELSE LET m == SeqMax(Tail(s)) IN IF s[1] >= m THEN s[1] ELSE m
RECURSIVE SeqMin(_)
SeqMin(s) == IF Len(s) = 1 THEN s[1]
             ELSE LET m == SeqMin(Tail(s)) IN IF s[1] <= m THEN s[1] ELSE m

\* deque.append on a deque built with maxlen: a full deque drops its oldest item.
deque_append_unbounded(d, x) == Append(d, x)

deque_append_drop_newest(d, x) ==
    IF maxlen = 0 THEN d
    ELSE IF Len(d) >= maxlen THEN Append(SubSeq(d, 1, Len(d) - 1), x)
    ELSE Append(d, x)

deque_append(d, x) ==
    IF maxlen = 0 THEN d
    ELSE IF Len(d) >= maxlen THEN Append(Tail(d), x)
    ELSE Append(d, x)

(***************************************************************************)
(* csv_consumer_prince.py                                                  *)
(***************************************************************************)
get_rolling_window_size == HEALTH_ROLLING_WINDOW_SIZE
get_stall_threshold == HEALTH_STALL_THRESHOLD_F

Numbers(d) == [i \in 1..Len(d) |-> d[i].v]

\* max(d) - min(d): comparing or subtracting anything but numbers raises.
range_raises(d) ==
    IF Len(d) = 0 THEN "ValueError"
    ELSE IF \E i \in 1..Len(d) : d[i].t # "number" THEN "TypeError"
    ELSE "ok"

\* "True" / "False" as returned, or the exception raised.
detect_stall_strict(rolling_window_deque) ==
    LET WINDOW_SIZE == get_rolling_window_size IN
    IF Len(rolling_window_deque) < WINDOW_SIZE THEN "False"
    ELSE IF range_raises(rolling_window_deque) # "ok" THEN range_raises(rolling_window_deque)
    ELSE IF SeqMax(Numbers(rolling_window_deque)) - SeqMin(Numbers(rolling_window_deque))
                < get_stall_threshold
         THEN "True" ELSE "False"

detect_stall_no_cold_start(rolling_window_deque) ==
    IF range_raises(rolling_window_deque) # "ok" THEN range_raises(rolling_window_deque)
    ELSE IF SeqMax(Numbers(rolling_window_deque)) - SeqMin(Numbers(rolling_window_deque))
                <= get_stall_threshold
         THEN "True" ELSE "False"

detect_stall(rolling_window_deque) ==
    LET WINDOW_SIZE == get_rolling_window_size IN
    IF Len(rolling_window_deque) < WINDOW_SIZE THEN "False"
    ELSE IF range_raises(rolling_window_deque) # "ok" THEN range_raises(rolling_window_deque)
    ELSE IF SeqMax(Numbers(rolling_window_deque)) - SeqMin(Numbers(rolling_window_deque))
                <= get_stall_threshold
         THEN "True" ELSE "False"

\* None in (timestamp, steps, heart_rate, calories_burned, sleep_hours, hydration_liters)
required_field_missing_no_calories(data) ==
    \E k \in CsvFields \ {"calories_burned"} : dict_get(data, k) = None

\* "not all((...))": a field that is 0 counts as missing too.
required_field_missing_falsy(data) ==
    \E k \in CsvFields : dict_get(data, k) = None \/ dict_get(data, k) = JNum(0)

required_field_missing(data) == \E k \in CsvFields : dict_get(data, k) = None

StallLine_value_for_timestamp(timestamp, calories_burned) ==
    [timestamp |-> calories_burned, calories_burned |-> calories_burned,
     window_size |-> window_size]

StallLine(timestamp, calories_burned) ==
    [timestamp |-> timestamp, calories_burned |-> calories_burned,
     window_size |-> window_size]

\* process_message(message, rolling_window, window_size): the deque it leaves,
\* the stall lines it logs, what detect_stall did, and the values it appended.
Skipped(rw, why) == [rolling_window |-> rw, lines |-> <<>>, is_stalled |-> why, pushed |-> <<>>]

csv_process_message_reads_steps(m, rw) ==
    IF json_loads(m).raised # "" THEN Skipped(rw, json_loads(m).raised)
    ELSE IF ~json_loads(m).isdict THEN Skipped(rw, "AttributeError")
    ELSE LET data == json_loads(m).value
             timestamp == dict_get(data, "timestamp")
             calories_burned == dict_get(data, "steps")
         IN IF required_field_missing(data) THEN Skipped(rw, "NotCalled")
            ELSE LET after == deque_append(rw, calories_burned)
                     stalled == detect_stall(after)
                 IN [rolling_window |-> after,
                     lines |-> IF stalled = "True"
                               THEN <<StallLine(timestamp, calories_burned)>> ELSE <<>>,
                     is_stalled |-> stalled,
                     pushed |-> <<calories_burned>>]

csv_process_message(m, rw) ==
    IF json_loads(m).raised # "" THEN Skipped(rw, json_loads(m).raised)
    ELSE IF ~json_loads(m).isdict THEN Skipped(rw, "AttributeError")
    ELSE LET data == json_loads(m).value
             timestamp == dict_get(data, "timestamp")
             calories_burned == dict_get(data, "calories_burned")
         IN IF required_field_missing(data) THEN Skipped(rw, "NotCalled")
            ELSE LET after == deque_append(rw, calories_burned)
                     stalled == detect_stall(after)
                 IN [rolling_window |-> after,
                     lines |-> IF stalled = "True"
                               THEN <<StallLine(timestamp, calories_burned)>> ELSE <<>>,
                     is_stalled |-> stalled,
                     pushed |-> <<calories_burned>>]

csv_vars == <<rolling_window, is_stalled, stall_log, message, accepted>>
json_vars == <<stock_prices, updated_log, appended>>
pair_vars == <<rolling_window_b, stall_log_b, message_b>>
config_vars == <<program, HEALTH_ROLLING_WINDOW_SIZE, HEALTH_STALL_THRESHOLD_F,
                 window_size, maxlen>>
loop_vars == <<pc, stopped_by, close_calls>>

\* main's loop body of the csv consumer, for one message.
CsvConsume(m) ==
    /\ program = "csv_consumer"
    /\ pc = "polling"
    /\ Len(accepted) < MaxReadings
    /\ LET r == csv_process_message(m, rolling_window) IN
        /\ message' = m
        /\ rolling_window' = r.rolling_window
        /\ is_stalled' = r.is_stalled
        /\ stall_log' = stall_log \o r.lines
        /\ accepted' = accepted \o r.pushed
    /\ UNCHANGED <<config_vars, json_vars, pair_vars, loop_vars>>

(***************************************************************************)
(* json_consumer_prince.py                                                 *)
(***************************************************************************)
unknown == JStr(0)          \* the default of message_dict.get("symbol", "unknown")
zero_price == JNum(0)       \* the default of message_dict.get("price", 0.0)
unknown_time == JStr(0)     \* the default of message_dict.get("timestamp", "unknown_time")

hashable(key) == key.t \in {"string", "number", "null"}

\* stock_prices[symbol] of a defaultdict(list): a missing key reads as [].
series(prices, symbol) == IF symbol \in DOMAIN prices THEN prices[symbol] ELSE <<>>

\* stock_prices[symbol].append(price)
series_insert_front(prices, symbol, price) ==
    [k \in (DOMAIN prices) \cup {symbol} |->
        IF k = symbol THEN <<price>> \o series(prices, symbol) ELSE prices[k]]

series_append_all(prices, symbol, price) ==
    [k \in (DOMAIN prices) \cup {symbol} |-> Append(series(prices, k), price)]

series_append(prices, symbol, price) ==
    [k \in (DOMAIN prices) \cup {symbol} |->
        IF k = symbol THEN Append(series(prices, symbol), price) ELSE prices[k]]

UpdatedLine_before_append(symbol, prices) ==
    [symbol |-> symbol, prices |-> series(stock_prices, symbol)]

UpdatedLine(symbol, prices) == [symbol |-> symbol, prices |-> prices]

\* process_message(message): the store it leaves, the "Updated prices" lines it
\* logs and the (symbol, price) pairs it appended.
Rejected(prices) == [stock_prices |-> prices, lines |-> <<>>, pushed |-> <<>>]

json_process_message(m, prices) ==
    IF json_loads(m).raised # "" THEN Rejected(prices)
    ELSE IF ~json_loads(m).isdict THEN Rejected(prices)
    ELSE LET message_dict == json_loads(m).value
             symbol == dict_get_default(message_dict, "symbol", unknown)
             price == dict_get_default(message_dict, "price", zero_price)
             timestamp == dict_get_default(message_dict, "timestamp", unknown_time)
         IN IF ~hashable(symbol) THEN Rejected(prices)
            ELSE LET after == series_append(prices, symbol, price)
                 IN [stock_prices |-> after,
                     lines |-> <<UpdatedLine(symbol, after[symbol])>>,
                     pushed |-> <<[symbol |-> symbol, price |-> price]>>]

\* main's loop body of the json consumer, for one message.
JsonConsume(m) ==
    /\ program = "json_consumer"
    /\ pc = "polling"
    /\ Len(appended) < MaxPrices
    /\ LET r == json_process_message(m, stock_prices) IN
        /\ message' = m
        /\ stock_prices' = r.stock_prices
        /\ updated_log' = updated_log \o r.lines
        /\ appended' = appended \o r.pushed
    /\ UNCHANGED <<config_vars, rolling_window, is_stalled, stall_log, accepted, pair_vars,
                   loop_vars>>

(***************************************************************************)
(* One run of one consumer.                                                *)
(***************************************************************************)
NoMessage == [syntax |-> "none", obj |-> <<>>]

Init ==
    /\ program \in {"csv_consumer", "json_consumer"}
    /\ HEALTH_ROLLING_WINDOW_SIZE \in 1..MaxWindow
    /\ HEALTH_STALL_THRESHOLD_F \in Thresholds
    /\ window_size = get_rolling_window_size
    /\ maxlen = window_size
    /\ rolling_window = <<>>
    /\ is_stalled = "NotCalled"
    /\ stall_log = <<>>
    /\ stock_prices = <<>>
    /\ updated_log = <<>>
    /\ message = NoMessage
    /\ accepted = <<>>
    /\ appended = <<>>
    /\ rolling_window_b = <<>>
    /\ stall_log_b = <<>>
    /\ message_b = NoMessage
    /\ pc = "polling"
    /\ stopped_by = "nothing"
    /\ close_calls = 0

Next ==
    \/ \E m \in CsvMessages : CsvConsume(m)
    \/ \E m \in JsonMessages : JsonConsume(m)

Spec == Init /\ [][Next]_vars

(***************************************************************************)
(* Two runs of the csv consumer under one configuration, on two streams    *)
(* whose messages differ in the extra fields only (steps, heart_rate,      *)
(* sleep_hours, hydration_liters): their values, or whether they are there. *)
(* The second stream is the first with one extra field given another       *)
(* value, nulled or dropped, so it never has a reading the first lacks.    *)
(***************************************************************************)
VariedFields == {"steps", "hydration_liters"}

ExtraVariants(m) ==
    IF m.syntax # "object" THEN {m}
    ELSE {m}
           \cup {Object(With(m.obj, f, x)) :
                    f \in {g \in VariedFields : HasValue(m, g)}, x \in {JNum(7), None}}
           \cup {Object(Without(m.obj, f)) : f \in VariedFields}

PairConsume(m, mb) ==
    /\ program = "csv_consumer"
    /\ pc = "polling"
    /\ Len(accepted) < MaxPairReadings
    /\ LET r == csv_process_message(m, rolling_window)
           rb == csv_process_message(mb, rolling_window_b) IN
        /\ message' = m
        /\ rolling_window' = r.rolling_window
        /\ is_stalled' = r.is_stalled
        /\ stall_log' = stall_log \o r.lines
        /\ accepted' = accepted \o r.pushed
        /\ message_b' = mb
        /\ rolling_window_b' = rb.rolling_window
        /\ stall_log_b' = stall_log_b \o rb.lines
    /\ UNCHANGED <<config_vars, json_vars, loop_vars>>

InitPair == Init /\ program = "csv_consumer"

PairMessages ==
    {Invalid}
        \cup {Object(HealthRecord(ts, cal, JNum(1))) : ts \in Timestamps, cal \in Calories}
        \cup {Object(Without(CsvBase, "timestamp")), Object(With(CsvBase, "calories_burned", None))}

NextPair == \E m \in PairMessages : \E mb \in ExtraVariants(m) : PairConsume(m, mb)

SpecPair == InitPair /\ [][NextPair]_vars

(***************************************************************************)
(* main's try / except / finally around the for loop, in either consumer.  *)
(* pc is "polling" inside the loop, "except" once an exception has left    *)
(* it (or the iterator has ended), "closed" after the finally clause.      *)
(* The csv consumer decodes a bytes body in main, outside process_message. *)
(***************************************************************************)
LoopCsvMessages ==
    {Invalid, Undecodable, Array,
     Object(CsvBase),
     Object(HealthRecord(JStr(2), JNum(3), JNum(1))),
     Object(HealthRecord(JStr(1), JStr(9), JNum(0))),
     Object(Without(CsvBase, "steps"))}

LoopJsonMessages ==
    {Invalid, Undecodable, Array,
     Object(JsonBase),
     Object(PriceRecord(JStr(1), JStr(2), JNum(2))),
     Object(Without(JsonBase, "price"))}

LoopMessages == IF program = "csv_consumer" THEN LoopCsvMessages ELSE LoopJsonMessages

LoopRoom ==
    IF program = "csv_consumer" THEN Len(accepted) < MaxLoopReadings
    ELSE Len(appended) < MaxLoopReadings

\* What one pass of the loop body does to the consumer's own state.
LoopBody(m) ==
    IF program = "csv_consumer"
    THEN LET r == csv_process_message(m, rolling_window) IN
         /\ rolling_window' = r.rolling_window
         /\ is_stalled' = r.is_stalled
         /\ stall_log' = stall_log \o r.lines
         /\ accepted' = accepted \o r.pushed
         /\ UNCHANGED json_vars
    ELSE LET r == json_process_message(m, stock_prices) IN
         /\ stock_prices' = r.stock_prices
         /\ updated_log' = updated_log \o r.lines
         /\ appended' = appended \o r.pushed
         /\ UNCHANGED <<rolling_window, is_stalled, stall_log, accepted>>

\* for message in consumer: decode (csv consumer), then process_message.
LoopConsume(m) ==
    /\ pc = "polling"
    /\ LoopRoom
    /\ message' = m
    /\ IF program = "csv_consumer" /\ m.syntax = "undecodable"
       THEN /\ pc' = "except"
            /\ stopped_by' = "UnicodeDecodeError"
            /\ UNCHANGED <<rolling_window, is_stalled, stall_log, accepted, json_vars,
                           close_calls>>
       ELSE /\ LoopBody(m)
            /\ UNCHANGED loop_vars
    /\ UNCHANGED <<config_vars, pair_vars>>

\* Ctrl-C while the iterator waits for the next message.
Interrupt ==
    /\ pc = "polling"
    /\ pc' = "except"
    /\ stopped_by' = "KeyboardInterrupt"
    /\ UNCHANGED <<config_vars, csv_vars, json_vars, pair_vars, close_calls>>

\* Ctrl-C inside process_message, between the append and the log line: except
\* Exception does not catch KeyboardInterrupt, so it reaches main.
InterruptInHandler(m) ==
    /\ pc = "polling"
    /\ LoopRoom
    /\ ~(program = "csv_consumer" /\ m.syntax = "undecodable")
    /\ message' = m
    /\ IF program = "csv_consumer"
       THEN LET r == csv_process_message(m, rolling_window) IN
            /\ r.pushed # <<>>
            /\ rolling_window' = r.rolling_window
            /\ accepted' = accepted \o r.pushed
            /\ is_stalled' = "KeyboardInterrupt"
            /\ UNCHANGED <<stall_log, json_vars>>
       ELSE LET r == json_process_message(m, stock_prices) IN
            /\ r.pushed # <<>>
            /\ stock_prices' = r.stock_prices
            /\ appended' = appended \o r.pushed
            /\ UNCHANGED <<updated_log, rolling_window, is_stalled, stall_log, accepted>>
    /\ pc' = "except"
    /\ stopped_by' = "KeyboardInterrupt"
    /\ UNCHANGED <<config_vars, pair_vars, close_calls>>

\* The iterator raises (broker gone, connection lost).
TransportError ==
    /\ pc = "polling"
    /\ pc' = "except"
    /\ stopped_by' = "transport"
    /\ UNCHANGED <<config_vars, csv_vars, json_vars, pair_vars, close_calls>>

\* The except clause logs, then finally: consumer.close().
Close_without_close ==
    /\ pc = "except"
    /\ pc' = "closed"
    /\ UNCHANGED <<config_vars, csv_vars, json_vars, pair_vars, stopped_by, close_calls>>

Close ==
    /\ pc = "except"
    /\ pc' = "closed"
    /\ close_calls' = close_calls + 1
    /\ UNCHANGED <<config_vars, csv_vars, json_vars, pair_vars, stopped_by>>

NextLoop ==
    \/ \E m \in LoopMessages : LoopConsume(m)
    \/ \E m \in LoopMessages : InterruptInHandler(m)
    \/ Interrupt
    \/ TransportError
    \/ Close

\* The finally clause runs once an exception has left the loop.
SpecLoop == Init /\ [][NextLoop]_vars /\ WF_vars(Close)

(***************************************************************************)
(* Properties.                                                             *)
(***************************************************************************)
LastN(s, n) == SubSeq(s, Len(s) - n + 1, Len(s))

IsPrefix(s, t) == Len(s) <= Len(t) /\ SubSeq(t, 1, Len(s)) = s

AllNumbers(d) == \A i \in 1..Len(d) : d[i].t = "number"

\* detect_stall ran for the last message (the message got past the field check).
DetectorRan == is_stalled \notin {"NotCalled", "JSONDecodeError", "AttributeError"}

\* C1: once more than window_size readings have been appended, the rolling
\* window is exactly the last window_size of them, in arrival order.
C1_FifoEviction ==
    (program = "csv_consumer" /\ Len(accepted) >= window_size + 1)
        => rolling_window = LastN(accepted, window_size)

\* Two evictions from a window of two, with the values arriving in descending order.
C1_Witness ==
    /\ program = "csv_consumer"
    /\ window_size = 2
    /\ Len(accepted) = 4
    /\ AllNumbers(accepted)
    /\ accepted[3].v > accepted[4].v
    /\ accepted[2] # accepted[4]
    /\ rolling_window = <<accepted[3], accepted[4]>>

\* C2: on a full window of numbers detect_stall answers True exactly when no
\* two members are further apart than the threshold (max - min <= threshold).
C2_RangeRule ==
    (/\ program = "csv_consumer"
     /\ DetectorRan
     /\ Len(rolling_window) = get_rolling_window_size
     /\ AllNumbers(rolling_window))
        => is_stalled =
             IF \A i, j \in 1..Len(rolling_window) :
                    rolling_window[i].v - rolling_window[j].v <= get_stall_threshold
             THEN "True" ELSE "False"

\* A full window whose range equals the threshold, found stalled.
C2_Witness ==
    /\ program = "csv_consumer"
    /\ get_rolling_window_size = 2
    /\ Len(rolling_window) = 2
    /\ AllNumbers(rolling_window)
    /\ rolling_window[1].v - rolling_window[2].v = get_stall_threshold
    /\ is_stalled = "True"

\* C3: while fewer than window_size readings have been appended, detect_stall
\* answers False whenever it runs and no stall line has been logged.
C3_ColdStart ==
    (program = "csv_consumer" /\ Len(accepted) < window_size)
        => /\ stall_log = <<>>
           /\ DetectorRan => is_stalled = "False"

\* Two equal readings in a window of three: the detector ran and said False.
C3_Witness ==
    /\ program = "csv_consumer"
    /\ window_size = 3
    /\ Len(accepted) = 2
    /\ accepted[1] = accepted[2]
    /\ AllNumbers(accepted)
    /\ is_stalled = "False"

\* C4: the rolling window never holds more than window_size values.
C4_WindowBounded ==
    program = "csv_consumer" => Len(rolling_window) <= window_size

\* More readings appended than the window holds, then a message that was skipped.
C4_Witness ==
    /\ program = "csv_consumer"
    /\ Len(accepted) = window_size + 2
    /\ Len(rolling_window) = window_size
    /\ ~DetectorRan

RECURSIVE PricesFor(_, _)
PricesFor(log, s) ==
    IF log = <<>> THEN <<>>
    ELSE (IF Head(log).symbol = s THEN <<Head(log).price>> ELSE <<>>)
             \o PricesFor(Tail(log), s)

SeriesKeys == Symbols \cup {unknown, None}

\* C5: the series of a symbol is the prices appended for it, in arrival order,
\* and every series only ever grows at its tail.
C5_SeriesIsHistory ==
    /\ [](program = "json_consumer" =>
            /\ DOMAIN stock_prices \subseteq SeriesKeys
            /\ \A s \in SeriesKeys : series(stock_prices, s) = PricesFor(appended, s))
    /\ [][\A s \in DOMAIN stock_prices :
            /\ s \in DOMAIN stock_prices'
            /\ IsPrefix(stock_prices[s], stock_prices'[s])]_vars

\* Two prices for one symbol, descending, with another symbol's price between them.
C5_Witness ==
    /\ program = "json_consumer"
    /\ Len(appended) = 3
    /\ appended[1].symbol = JStr(1)
    /\ appended[2].symbol = JStr(2)
    /\ appended[3].symbol = JStr(1)
    /\ appended[1].price = JNum(2)
    /\ appended[3].price = JNum(1)
    /\ stock_prices[JStr(1)] = <<JNum(2), JNum(1)>>
    /\ stock_prices[JStr(2)] = <<appended[2].price>>

\* C6: a JSON object without a price field leaves every series as it was.
C6_MissingPriceRejected ==
    [][(program = "json_consumer" /\ message'.syntax = "object"
            /\ "price" \notin DOMAIN message'.obj)
         => stock_prices' = stock_prices]_vars

\* C7: a body that is no JSON changes neither the window and the stall log nor
\* any series.
C7_MalformedNoChange ==
    [][message'.syntax = "invalid" =>
         UNCHANGED <<rolling_window, stall_log, accepted,
                     stock_prices, updated_log, appended>>]_vars

\* A body that is no JSON was the last one consumed, with a window or a series
\* already filled.
C7_Witness ==
    /\ message.syntax = "invalid"
    /\ \/ program = "csv_consumer" /\ Len(rolling_window) = window_size
       \/ program = "json_consumer" /\ DOMAIN stock_prices # {}

\* C8: a message without a timestamp or without calories_burned (missing or
\* null) changes neither the window nor the stall log, so the next message
\* meets the state the one before it left.
C8_IncompleteDiscarded ==
    [][(/\ program = "csv_consumer"
        /\ message'.syntax = "object"
        /\ ~(HasValue(message', "timestamp") /\ HasValue(message', "calories_burned")))
         => /\ UNCHANGED <<rolling_window, stall_log, accepted>>
            /\ is_stalled' = "NotCalled"]_vars

\* A message whose calories_burned is null was skipped while the window was
\* one reading short of full.
C8_Witness ==
    /\ program = "csv_consumer"
    /\ message.syntax = "object"
    /\ "calories_burned" \in DOMAIN message.obj
    /\ message.obj["calories_burned"] = None
    /\ HasValue(message, "timestamp")
    /\ window_size = 2
    /\ Len(rolling_window) = 1
    /\ is_stalled = "NotCalled"

\* C9: a message whose metric is present but no number changes neither the
\* window nor any series.
C9_NonNumericRejected ==
    [][(/\ message'.syntax = "object"
        /\ \/ program = "csv_consumer" /\ HasValue(message', "calories_burned")
                /\ message'.obj["calories_burned"].t # "number"
           \/ program = "json_consumer" /\ HasValue(message', "price")
                /\ message'.obj["price"].t # "number")
         => UNCHANGED <<rolling_window, stock_prices>>]_vars

\* The extra fields are all there and none is null.
ExtrasComplete(m) ==
    m.syntax = "object" => \A f \in ExtraFields : HasValue(m, f)

\* C10 as stated: two streams that differ in the extra fields only leave the
\* same window and the same stall lines.
C10_ExtrasIgnored ==
    rolling_window_b = rolling_window /\ stall_log_b = stall_log

\* C10, amended: two streams that agree on every timestamp and calories_burned
\* and on whether the extra fields are all present and non-null leave the same
\* window and the same stall lines, whatever the values of the extra fields.
C10_ExtraValuesIgnored ==
    [][(/\ rolling_window_b = rolling_window
        /\ stall_log_b = stall_log
        /\ ExtrasComplete(message') = ExtrasComplete(message_b'))
         => /\ rolling_window_b' = rolling_window'
            /\ stall_log_b' = stall_log']_vars

\* The two streams ended on messages with different steps; both filled the
\* window and logged the same stall line.
C10_Witness ==
    /\ message.syntax = "object"
    /\ message_b.syntax = "object"
    /\ HasValue(message, "steps")
    /\ HasValue(message_b, "steps")
    /\ message.obj["steps"] # message_b.obj["steps"]
    /\ window_size = 2
    /\ Len(rolling_window) = 2
    /\ rolling_window_b = rolling_window
    /\ stall_log # <<>>
    /\ stall_log_b = stall_log
    /\ is_stalled = "True"

\* The symbol a json message is filed under by the handler's dict.get.
FiledUnder(m) == dict_get_default(m.obj, "symbol", unknown)

\* C13: a message for one symbol leaves the series of every other symbol as it
\* was; no step changes more than one series.
C13_PerKeyIsolation ==
    [][program = "json_consumer" =>
         \A k \in SeriesKeys :
            series(stock_prices', k) # series(stock_prices, k)
               => /\ message'.syntax = "object"
                  /\ k = FiledUnder(message')
                  /\ \A other \in SeriesKeys \ {k} :
                        series(stock_prices', other) = series(stock_prices, other)]_vars

\* A price was last appended for the second symbol while the first symbol's
\* series held two prices.
C13_Witness ==
    /\ program = "json_consumer"
    /\ Len(appended) = 3
    /\ appended[3].symbol = JStr(2)
    /\ HasValue(message, "symbol")
    /\ message.obj["symbol"] = JStr(2)
    /\ JStr(1) \in DOMAIN stock_prices
    /\ Len(stock_prices[JStr(1)]) = 2
    /\ stock_prices[JStr(2)] = <<appended[3].price>>

\* Every field the csv handler reads is there and none is null.
Complete(m) == \A f \in CsvFields : HasValue(m, f)

\* A window of numbers no two of which are further apart than the threshold.
WithinThreshold(d) ==
    /\ AllNumbers(d)
    /\ \A i, j \in 1..Len(d) : d[i].v - d[j].v <= get_stall_threshold

\* C14: a message adds at most one stall line; it adds one exactly when it is
\* complete and leaves the window full and within the threshold; the line
\* carries the message's timestamp and calories_burned and the window size.
C14_StallEventRule ==
    [][program = "csv_consumer" =>
         LET emitted == Len(stall_log') > Len(stall_log) IN
         /\ IsPrefix(stall_log, stall_log')
         /\ Len(stall_log') <= Len(stall_log) + 1
         /\ emitted <=> (/\ Complete(message')
                         /\ Len(rolling_window') = window_size
                         /\ WithinThreshold(rolling_window'))
         /\ emitted =>
              stall_log'[Len(stall_log')] =
                 [timestamp |-> message'.obj["timestamp"],
                  calories_burned |-> message'.obj["calories_burned"],
                  window_size |-> window_size]]_vars

\* Two stall lines with different timestamps and different values, the second
\* for the message consumed last.
C14_Witness ==
    /\ program = "csv_consumer"
    /\ window_size = 2
    /\ Len(stall_log) = 2
    /\ stall_log[1].timestamp # stall_log[2].timestamp
    /\ stall_log[1].calories_burned # stall_log[2].calories_burned
    /\ Complete(message)
    /\ stall_log[2].timestamp = message.obj["timestamp"]
    /\ stall_log[2].window_size = 2
    /\ is_stalled = "True"

\* A json message with a string symbol, a numeric price and a timestamp.
WellFormedPrice(m) ==
    /\ \A f \in JsonFields : HasValue(m, f)
    /\ m.obj["symbol"].t = "string"
    /\ m.obj["price"].t = "number"

\* C15: a message adds at most one "updated" line, and adds one exactly when it
\* appends to a series; the line names the series appended to and shows it with
\* the new price last.  A well-formed message always adds one, under its own
\* symbol; a body that is no JSON object adds none.
C15_UpdatedEventRule ==
    [][program = "json_consumer" =>
         LET emitted == Len(updated_log') > Len(updated_log)
             line == updated_log'[Len(updated_log')]
         IN
         /\ IsPrefix(updated_log, updated_log')
         /\ Len(updated_log') <= Len(updated_log) + 1
         /\ emitted <=> stock_prices' # stock_prices
         /\ emitted <=> Len(appended') > Len(appended)
         /\ message'.syntax # "object" => ~emitted
         /\ WellFormedPrice(message') =>
              /\ emitted
              /\ line.symbol = message'.obj["symbol"]
              /\ line.prices = Append(series(stock_prices, message'.obj["symbol"]),
                                      message'.obj["price"])
         /\ emitted =>
              /\ line.prices = stock_prices'[line.symbol]
              /\ line.prices = Append(series(stock_prices, line.symbol),
                                      appended'[Len(appended')].price)]_vars

\* The second price for a symbol was appended last, and the last line shows both.
C15_Witness ==
    /\ program = "json_consumer"
    /\ WellFormedPrice(message)
    /\ Len(updated_log) = 2
    /\ updated_log[1].symbol = message.obj["symbol"]
    /\ updated_log[2].symbol = message.obj["symbol"]
    /\ Len(updated_log[2].prices) = 2
    /\ updated_log[2].prices[1] # updated_log[2].prices[2]
    /\ updated_log[2].prices[2] = message.obj["price"]

\* C16: a series comes into being only under the symbol of a message that has
\* all of symbol, price and timestamp.
C16_LazyCreation ==
    [][program = "json_consumer" =>
         \A k \in DOMAIN stock_prices' :
            k \notin DOMAIN stock_prices
               => /\ \A f \in JsonFields : HasValue(message', f)
                  /\ k = message'.obj["symbol"]]_vars

\* C17: a full window stays full, the detector's size is the deque's capacity,
\* and from the window_size-th reading on every valid reading gets a True or
\* False from the range test.
C17_FullStaysDecided ==
    [][program = "csv_consumer" =>
         /\ Len(rolling_window) = window_size => Len(rolling_window') = window_size
         /\ get_rolling_window_size' = maxlen'
         /\ (/\ Complete(message')
             /\ message'.obj["calories_burned"].t = "number"
             /\ Len(accepted') >= window_size)
               => is_stalled' \in {"True", "False"}]_vars

\* C18: a body that is JSON but no JSON object changes neither the window and
\* the stall log nor any series, and logs no update.
C18_NonObjectRejected ==
    [][message'.syntax \in {"array", "null"} =>
         UNCHANGED <<rolling_window, stall_log, accepted,
                     stock_prices, updated_log, appended>>]_vars

\* A JSON array or null was the last body consumed, after a stall line or an
\* update had been logged.
C18_Witness ==
    /\ message.syntax \in {"array", "null"}
    /\ \/ program = "csv_consumer" /\ stall_log # <<>> /\ is_stalled = "AttributeError"
       \/ program = "json_consumer" /\ updated_log # <<>>

\* C19: a message whose six fields are all there and non-null is appended to
\* the window with its calories_burned, zeros included.
C19_ZeroIsPresent ==
    [][(program = "csv_consumer" /\ Complete(message')) =>
         /\ accepted' = Append(accepted, message'.obj["calories_burned"])
         /\ Len(rolling_window') >= 1
         /\ rolling_window'[Len(rolling_window')] = message'.obj["calories_burned"]]_vars

\* A message with calories_burned 0 and steps 0 was appended after another reading.
C19_Witness ==
    /\ program = "csv_consumer"
    /\ Complete(message)
    /\ message.obj["calories_burned"] = JNum(0)
    /\ message.obj["steps"] = JNum(0)
    /\ Len(accepted) = 2
    /\ accepted[1] # JNum(0)
    /\ accepted[2] = JNum(0)
    /\ rolling_window[Len(rolling_window)] = JNum(0)

\* C11: the for loop is left only on cancellation or a transport failure,
\* never because of what a message holds.
C11_ContentNeverStops ==
    [][(pc = "polling" /\ pc' # "polling")
         => stopped_by' \in {"KeyboardInterrupt", "transport"}]_vars

\* C12: once the loop has been left nothing is consumed any more, the window
\* and every series stay as they are, consumer.close() is called exactly once,
\* and it is called eventually, after Ctrl-C and after a transport error alike.
C12_Cancellation ==
    /\ [][pc # "polling" =>
            /\ pc' # "polling"
            /\ UNCHANGED <<rolling_window, stall_log, accepted,
                           stock_prices, updated_log, appended, message>>]_vars
    /\ [][pc = "closed" => pc' = "closed" /\ close_calls' = close_calls]_vars
    /\ [](close_calls <= 1 /\ (pc = "closed" <=> close_calls = 1))
    /\ (pc = "except" ~> (pc = "closed" /\ close_calls = 1))

\* Closed once after Ctrl-C, with readings in the window.
C12_Witness ==
    /\ program = "csv_consumer"
    /\ pc = "closed"
    /\ close_calls = 1
    /\ stopped_by = "KeyboardInterrupt"
    /\ Len(rolling_window) = 2

====
